---- MODULE Spec2Model ----
(***************************************************************************)
(* State-machine model of src/api/src/create_book.py: the Wattpad fetchers *)
(* (retrieve_story, fetch_part_content, fetch_cover) going through the     *)
(* shared response cache, slugify, and the EPUB assembly steps             *)
(* (set_metadata, set_cover, add_chapters).  add_chapters is an async      *)
(* generator: its steps are the stretches of code between two suspension   *)
(* points (an awaited request, a yield).                                   *)
(***************************************************************************)
EXTENDS Integers, Sequences, FiniteSets, TLC

VARIABLES
    serverParts,  \* the parts(id,title) list the API serves for a story
    now,          \* wall clock, in seconds
    cache,        \* the FileBackend: url -> [body, created, expires]
    run,          \* number of runs started so far
    pc,           \* position of the current run
    story_id,     \* retrieve_story's story_id in this run
    cookies,      \* the credentials the caller supplied for this run
    retry,        \* retry flag of the active retrieve_story frame
    rsLog,        \* responses retrieve_story has seen in this run, each with
                  \* the time the network sent it
    delays,       \* completed asyncio.sleep calls of retrieve_story
    data,         \* what retrieve_story returned (NoData before)
    err,          \* the exception that ended the run (NoError if none)
    stage,        \* assembly steps the caller has already made
    book,         \* the epub.EpubBook under construction
    chapters,     \* add_chapters' local list
    chapLog,      \* statuses add_chapters' part requests got
    events,       \* titles add_chapters has yielded
    reqs,         \* session.get calls of this run, in order
    prev,         \* the retrieve_story call of the previous run
    coverLog,     \* statuses set_cover's request got in this run
    logins,       \* wp_get_cookies calls so far, each with its request
    auth,         \* what the last wp_get_cookies call returned (NoData before)
    slug          \* a slugify input and the results of applying slugify to it

vars == <<serverParts, now, cache, run, pc, story_id, cookies, retry, rsLog,
          delays, data, err, stage, book, chapters, chapLog, events, reqs, prev,
          coverLog, logins, auth, slug>>

----------------------------------------------------------------------------
(* Bounds of the model *)

MaxLen == 3
MaxParts == 2       \* longest parts list served
MaxRuns == 2        \* runs of the pipeline per behaviour
MaxTicks == 2       \* idle periods between runs
TickLen == 21600    \* length of one idle period, in seconds

(* Program constants *)

ExpireAfter == 43200
SleepDelay == 15

StoryIds == {1, 2}
PartIds == {1, 2}
Titles == {<<"A">>, <<"a", "!">>}
Versions == {1, 2}

----------------------------------------------------------------------------
(* Sequence helpers *)

Last(s) == s[Len(s)]

IsPrefix(s, t) == Len(s) <= Len(t) /\ \A i \in 1..Len(s) : s[i] = t[i]

SeqsUpTo(S, n) == UNION {[1..k -> S] : k \in 0..n}

RECURSIVE Flatten(_)
Flatten(ss) == IF ss = <<>> THEN <<>> ELSE Head(ss) \o Flatten(Tail(ss))

----------------------------------------------------------------------------
(* slugify.  A string is a sequence of characters; the alphabet is          *)
(* a A b B 1 - _ space ! and e_acute (U+00E9).                              *)

Chars == {"a", "A", "b", "B", "1", "-", "_", " ", "!", "e_acute", "sup1"}

\* unicodedata.normalize("NFKD", c).encode("ascii", "ignore").decode("ascii")
AsciiFold(c) ==
    CASE c = "e_acute" -> <<"e">>
      [] c = "sup1" -> <<"1">>
      [] OTHER -> <<c>>

\* unicodedata.normalize("NFKC", c)
NFKC(c) == IF c = "sup1" THEN <<"1">> ELSE <<c>>

\* str.lower on one ASCII character
Lower(c) == CASE c = "A" -> "a" [] c = "B" -> "b" [] OTHER -> c

\* \w, \s and - of the regular expression [^\w\s-]
IsWord(c) == c \in {"a", "b", "e", "A", "B", "1", "_", "e_acute", "sup1"}
IsSpace(c) == c = " "
IsKept(c) == IsWord(c) \/ IsSpace(c) \/ c = "-"

\* re.sub(r"[^\w\s-]", "", value)
RECURSIVE RemoveOthers(_)
RemoveOthers(s) ==
    IF s = <<>> THEN <<>>
    ELSE (IF IsKept(Head(s)) THEN <<Head(s)>> ELSE <<>>) \o RemoveOthers(Tail(s))

IsSep(c) == c = "-" \/ IsSpace(c)

RECURSIVE DropSeps(_)
DropSeps(s) == IF s # <<>> /\ IsSep(Head(s)) THEN DropSeps(Tail(s)) ELSE s

\* re.sub(r"[-\s]+", "-", value)
RECURSIVE Collapse(_)
Collapse(s) ==
    IF s = <<>> THEN <<>>
    ELSE IF IsSep(Head(s)) THEN <<"-">> \o Collapse(DropSeps(s))
         ELSE <<Head(s)>> \o Collapse(Tail(s))

\* str.strip("-_")
RECURSIVE LStrip(_)
LStrip(s) == IF s # <<>> /\ Head(s) \in {"-", "_"} THEN LStrip(Tail(s)) ELSE s

RECURSIVE RStrip(_)
RStrip(s) ==
    IF s # <<>> /\ Last(s) \in {"-", "_"} THEN RStrip(SubSeq(s, 1, Len(s) - 1)) ELSE s

StripNothing(s) == s

Strip(s) == RStrip(LStrip(s))

slugifyStripsFirst(value, allow_unicode) ==
    LET folded == Flatten([i \in 1..Len(value) |->
                      IF allow_unicode THEN NFKC(value[i]) ELSE AsciiFold(value[i])])
        lowered == [i \in 1..Len(folded) |-> Lower(folded[i])]
        kept == RemoveOthers(lowered)
    IN  Collapse(Strip(kept))

\* slugify(value, allow_unicode)
slugifyWith(value, allow_unicode) ==
    LET folded == Flatten([i \in 1..Len(value) |->
                      IF allow_unicode THEN NFKC(value[i]) ELSE AsciiFold(value[i])])
        lowered == [i \in 1..Len(folded) |-> Lower(folded[i])]
        kept == RemoveOthers(lowered)
    IN  Strip(Collapse(kept))

\* slugify(value), as add_chapters calls it
slugify(value) == slugifyWith(value, FALSE)

----------------------------------------------------------------------------
(* Values *)

\* cookies={} : the default credentials of retrieve_story, fetch_part_content
\* and fetch_cover
DefaultCookies == {}

\* credentials a caller may supply: none, or the mapping a login returned
UserCookies == {<<"token", "t1">>}
CookieChoices == {DefaultCookies, UserCookies}

\* return {} : the empty record
EmptyRecord == [k \in {} |-> 0]

NoData == [none |-> TRUE]
NoError == [type |-> "none"]

\* a response body that response.json() rejects with a JSONDecodeError
BadJson == [badjson |-> TRUE]
NoBody == [nobody |-> TRUE]

PartRefs == [id : PartIds, title : Titles]

StoryUrl(sid) == <<"api/v3/stories", sid>>
PartUrl(pid) == <<"apiv2/?m=storytext", pid>>
CoverUrl(sid) == <<"img/cover", sid>>

\* the record the metadata endpoint serves for story sid
StoryRecord(sid, version) ==
    [tags |-> <<"tag">>, id |-> sid, title |-> <<"S">>, createDate |-> 0,
     modifyDate |-> version, language |-> [name |-> "English"],
     description |-> <<"d">>, completed |-> TRUE, mature |-> FALSE,
     user |-> [username |-> "author"], parts |-> serverParts,
     cover |-> CoverUrl(sid)]

Html(pid) == <<"<p>", ToString(pid), "</p>">>
Jpeg == <<"jpeg">>

OkCodes == {200}
NotFoundCodes == {404, 400}
ErrorCodes == {500}
Statuses == OkCodes \cup NotFoundCodes \cup ErrorCodes

\* what the network may answer to a request
Responses(okBodies) ==
    [status : OkCodes, body : okBodies]
        \cup [status : NotFoundCodes \cup ErrorCodes, body : {NoBody}]

----------------------------------------------------------------------------
(* The response cache *)

\* allowed_codes of the backend: the statuses whose responses are stored
AllowedCodes == {200}

Without(c, url) == [u \in DOMAIN c \ {url} |-> c[u]]

\* a stored response that has not expired at time t
CacheHit(c, url, t) == url \in DOMAIN c /\ t <= c[url].expires

\* the lookup of a request: an expired response is deleted
CacheLookup(c, url, t) ==
    IF url \in DOMAIN c /\ ~CacheHit(c, url, t) THEN Without(c, url) ELSE c

\* a session made without cache=cache: nothing is stored
CacheSaveNothing(c, url, status, body, t) == c

\* the cache after the network answered the request for url at time t
CacheSave(c, url, status, body, t) ==
    IF status \in AllowedCodes
    THEN [u \in DOMAIN c \cup {url} |->
             IF u = url
             THEN [body |-> body, created |-> t, expires |-> t + ExpireAfter]
             ELSE c[u]]
    ELSE c

\* one session.get call, as logged
Request(url, ck, c, t) ==
    [url |-> url, cookies |-> ck, network |-> ~CacheHit(c, url, t), at |-> t]

NetworkRequests(kind) ==
    {i \in 1..Len(reqs) : reqs[i].network /\ reqs[i].url[1] = kind}

RequestsOf(kind) == {i \in 1..Len(reqs) : reqs[i].url[1] = kind}

----------------------------------------------------------------------------
(* retrieve_story *)

\* retrieve_story, had the retried call passed on retry=True
StoryOutcomeRetryAlways(status, body, rt) ==
    IF status \notin OkCodes
    THEN IF status \in NotFoundCodes
         THEN [kind |-> "return", value |-> EmptyRecord]
         ELSE [kind |-> "sleep"]
    ELSE IF body = BadJson THEN [kind |-> "sleep"]
         ELSE [kind |-> "return", value |-> body]

\* retrieve_story without its test for 404 and 400
StoryOutcomeNotFoundRetried(status, body, rt) ==
    LET caught == IF ~rt THEN [kind |-> "raise", type |-> "TimeoutError"]
                  ELSE [kind |-> "sleep"]
    IN  IF status \notin OkCodes \/ body = BadJson
        THEN caught
        ELSE [kind |-> "return", value |-> body]

\* what retrieve_story does with a response, given its retry flag
StoryOutcome(status, body, rt) ==
    LET caught == IF ~rt THEN [kind |-> "raise", type |-> "TimeoutError"]
                  ELSE [kind |-> "sleep"]
    IN  IF status \notin OkCodes
        THEN IF status \in NotFoundCodes
             THEN [kind |-> "return", value |-> EmptyRecord]
             ELSE caught
        ELSE IF body = BadJson THEN caught
             ELSE [kind |-> "return", value |-> body]

\* retrieve_story from the moment session.get has its response, which the
\* network sent at time created
StoryResume(status, body, rt, network, created) ==
    LET o == StoryOutcome(status, body, rt)
    IN  /\ rsLog' = Append(rsLog, [status |-> status, body |-> body,
                                   network |-> network, created |-> created])
        /\ retry' = rt
        /\ CASE o.kind = "return" ->
                    pc' = "fetched" /\ data' = o.value /\ err' = err
             [] o.kind = "raise" ->
                    /\ pc' = "failed" /\ data' = data
                    /\ err' = [type |-> o.type, in |-> "retrieve_story"]
             [] o.kind = "sleep" ->
                    pc' = "story_sleep" /\ data' = data /\ err' = err

\* retrieve_story(sid, retry=rt, cookies=ck) called at time t
StoryCall(sid, rt, ck, t) ==
    LET url == StoryUrl(sid)
        c == CacheLookup(cache, url, t)
    IN  /\ reqs' = Append(reqs, Request(url, ck, cache, t))
        /\ cache' = c
        /\ IF CacheHit(cache, url, t)
           THEN StoryResume(200, c[url].body, rt, FALSE, c[url].created)
           ELSE /\ pc' = "story_wait"
                /\ retry' = rt
                /\ UNCHANGED <<rsLog, data, err>>

\* the caller starts a run: retrieve_story(sid, cookies=ck)
RetrieveStory(sid, ck) ==
    /\ pc = "idle"
    /\ run < MaxRuns
    /\ run' = run + 1
    /\ story_id' = sid
    /\ cookies' = ck
    /\ StoryCall(sid, TRUE, ck, now)
    /\ UNCHANGED <<serverParts, now, delays, stage, book, chapters, chapLog,
                   events, prev>>
    /\ UNCHANGED <<coverLog, logins, auth, slug>>

\* the network answers the metadata request
StoryResponse(r) ==
    /\ pc = "story_wait"
    /\ cache' = CacheSave(cache, StoryUrl(story_id), r.status, r.body, now)
    /\ StoryResume(r.status, r.body, retry, TRUE, now)
    /\ UNCHANGED <<serverParts, now, run, story_id, cookies, delays, stage, book,
                   chapters, chapLog, events, reqs, prev>>
    /\ UNCHANGED <<coverLog, logins, auth, slug>>

\* await asyncio.sleep(15); return await retrieve_story(story_id, retry=False)
StoryRetry ==
    /\ pc = "story_sleep"
    /\ now' = now + SleepDelay
    /\ delays' = delays + 1
    /\ StoryCall(story_id, FALSE, DefaultCookies, now + SleepDelay)
    /\ UNCHANGED <<serverParts, run, story_id, cookies, stage, book, chapters,
                   chapLog, events, prev>>
    /\ UNCHANGED <<coverLog, logins, auth, slug>>

----------------------------------------------------------------------------
(* fetch_part_content and fetch_cover *)

\* fetch_part_content without its test for 404 and 400
PartOutcomeNotFoundRaises(status, body) ==
    IF status \notin OkCodes
    THEN [kind |-> "raise", type |-> "ValueError", status |-> status]
    ELSE [kind |-> "return", value |-> body]

\* fetch_part_content returning "" for every failed request
PartOutcomeErrorEmpty(status, body) ==
    IF status \notin OkCodes
    THEN [kind |-> "return", value |-> <<>>]
    ELSE [kind |-> "return", value |-> body]

\* what fetch_part_content does with a response
PartOutcome(status, body) ==
    IF status \notin OkCodes
    THEN IF status \in NotFoundCodes
         THEN [kind |-> "return", value |-> <<>>]
         ELSE [kind |-> "raise", type |-> "ValueError", status |-> status]
    ELSE [kind |-> "return", value |-> body]

\* what fetch_cover does with a response
\* a fetch_cover that takes every non-success status for a missing cover
CoverOutcomeErrorEmpty(status, body) ==
    IF status \notin OkCodes
    THEN [kind |-> "return", value |-> <<>>]
    ELSE [kind |-> "return", value |-> body]

CoverOutcome(status, body) ==
    IF status \notin OkCodes
    THEN IF status \in NotFoundCodes
         THEN [kind |-> "return", value |-> <<>>]
         ELSE [kind |-> "raise", type |-> "ValueError", status |-> status]
    ELSE [kind |-> "return", value |-> body]

----------------------------------------------------------------------------
(* set_metadata *)

Meta(ns, name, value, others) ==
    [ns |-> ns, name |-> name, value |-> value, others |-> others]

MetadataOf(d) ==
    << Meta("DC", "description", d.description, <<>>),
       Meta("DC", "created", d.createDate, <<>>),
       Meta("DC", "modified", d.modifyDate, <<>>),
       Meta("DC", "language", d.language.name, <<>>),
       Meta("", "meta", "", <<"tags", d.tags>>),
       Meta("", "meta", "", <<"mature", d.mature>>),
       Meta("", "meta", "", <<"completed", d.completed>>) >>

Raise(type, where) ==
    /\ pc' = "failed"
    /\ err' = [type |-> type, in |-> where]

SetMetadata ==
    /\ pc = "fetched"
    /\ stage = 0
    /\ stage' = 1
    /\ IF "user" \notin DOMAIN data
       THEN Raise("KeyError", "set_metadata") /\ book' = book
       ELSE /\ book' = [book EXCEPT !.authors = Append(@, data.user.username),
                                    !.metadata = @ \o MetadataOf(data)]
            /\ UNCHANGED <<pc, err>>
    /\ UNCHANGED <<serverParts, now, cache, run, story_id, cookies, retry, rsLog,
                   delays, data, chapters, chapLog, events, reqs, prev>>
    /\ UNCHANGED <<coverLog, logins, auth, slug>>

----------------------------------------------------------------------------
(* set_cover *)

CoverImage(content) ==
    [kind |-> "cover-img", uid |-> <<"cover-img">>,
     file_name |-> <<"cover.jpg">>, content |-> content]
CoverPage == [kind |-> "cover-page", uid |-> <<"cover">>,
              file_name |-> <<"cover.xhtml">>]

\* book.set_cover("cover.jpg", content)
BookSetCover(b, content) ==
    [b EXCEPT !.items = @ \o <<CoverImage(content), CoverPage>>,
              !.metadata = Append(@, Meta("", "meta", "", <<"cover", "cover-img">>))]

\* set_cover from the moment fetch_cover's session.get has its response
CoverResume(status, body) ==
    LET o == CoverOutcome(status, body)
    IN  /\ coverLog' = Append(coverLog, status)
        /\ IF o.kind = "return"
           THEN /\ book' = BookSetCover(book, o.value)
                /\ pc' = "fetched"
                /\ err' = err
           ELSE /\ book' = book
                /\ pc' = "failed"
                /\ err' = [type |-> o.type, in |-> "fetch_cover",
                           status |-> o.status]

\* the cookies of the request set_cover makes: fetch_cover(data["cover"])
CoverCookies == DefaultCookies

\* set_cover asking for data.get("cover") instead of data["cover"]
SetCoverWithoutKey ==
    /\ pc = "fetched"
    /\ stage <= 1
    /\ stage' = 2
    /\ LET url == IF "cover" \in DOMAIN data THEN data.cover ELSE CoverUrl(story_id)
           c == CacheLookup(cache, url, now)
       IN  /\ reqs' = Append(reqs, Request(url, CoverCookies, cache, now))
           /\ cache' = c
           /\ IF CacheHit(cache, url, now)
              THEN CoverResume(200, c[url].body)
              ELSE pc' = "cover_wait" /\ UNCHANGED <<book, err, coverLog>>
    /\ UNCHANGED <<serverParts, now, run, story_id, cookies, retry, rsLog, delays,
                   data, chapters, chapLog, events, prev>>
    /\ UNCHANGED <<logins, auth, slug>>

SetCover ==
    /\ pc = "fetched"
    /\ stage <= 1
    /\ stage' = 2
    /\ IF "cover" \notin DOMAIN data
       THEN /\ Raise("KeyError", "set_cover")
            /\ UNCHANGED <<book, cache, reqs, coverLog>>
       ELSE LET url == data.cover
                c == CacheLookup(cache, url, now)
            IN  /\ reqs' = Append(reqs, Request(url, CoverCookies, cache, now))
                /\ cache' = c
                /\ IF CacheHit(cache, url, now)
                   THEN CoverResume(200, c[url].body)
                   ELSE pc' = "cover_wait" /\ UNCHANGED <<book, err, coverLog>>
    /\ UNCHANGED <<serverParts, now, run, story_id, cookies, retry, rsLog, delays,
                   data, chapters, chapLog, events, prev>>
    /\ UNCHANGED <<logins, auth, slug>>

\* the network answers the cover request
CoverResponse(r) ==
    /\ pc = "cover_wait"
    /\ cache' = CacheSave(cache, data.cover, r.status, r.body, now)
    /\ CoverResume(r.status, r.body)
    /\ UNCHANGED <<serverParts, now, run, story_id, cookies, retry, rsLog, delays,
                   data, stage, chapters, chapLog, events, reqs, prev>>
    /\ UNCHANGED <<logins, auth, slug>>

----------------------------------------------------------------------------
(* add_chapters *)

\* epub.EpubHtml(title=..., file_name=f"{slugify(title)}.xhtml", lang=...)
\* followed by chapter.set_content(f"<h1>{title}</h1>" + content)
Chapter(title, lang, content) ==
    [kind |-> "chapter", uid |-> <<>>, title |-> title,
     file_name |-> slugify(title) \o <<".xhtml">>, lang |-> lang,
     content |-> <<"<h1>">> \o title \o <<"</h1>">> \o content]

EpubNcx == [kind |-> "ncx", uid |-> <<"ncx">>, file_name |-> <<"toc.ncx">>]
EpubNav == [kind |-> "nav", uid |-> <<"nav">>, file_name |-> <<"nav.xhtml">>]

\* the spine entry "nav": a reference, by uid, to the EpubNav item
NavRef == [idref |-> <<"nav">>]

\* the chapters as book.add_item leaves them: an EpubHtml without uid gets
\* chapter_<n>, n counting the book's chapters from 0
Added(b, chs) ==
    LET base == Cardinality({i \in 1..Len(b.items) : b.items[i].kind = "chapter"})
    IN  [i \in 1..Len(chs) |->
            IF chs[i].uid = <<>>
            THEN [chs[i] EXCEPT !.uid = <<"chapter_", ToString(base + i - 1)>>]
            ELSE chs[i]]

\* an add_item that refuses an item whose file name the book already has
RECURSIVE AppendNew(_, _)
AppendNew(items, chs) ==
    IF chs = <<>> THEN items
    ELSE AppendNew(IF \E i \in 1..Len(items) : items[i].file_name = Head(chs).file_name
                   THEN items ELSE Append(items, Head(chs)),
                   Tail(chs))

AddItemsDedup(b, chs) == [b EXCEPT !.items = AppendNew(@, Added(b, chs))]

\* for chapter in chapters: book.add_item(chapter)
AddItems(b, chs) == [b EXCEPT !.items = @ \o Added(b, chs)]

\* a spine of the chapters alone
SpineOfChaptersOnly(chs) == chs

\* the spine add_chapters sets
SpineOf(chs) == <<NavRef>> \o chs

\* the statements of add_chapters after its for loop over the parts
Attach(b, chs) ==
    LET b1 == AddItems(b, chs)
        b2 == [b1 EXCEPT !.toc = Added(b, chs)]
        b3 == [b2 EXCEPT !.items = @ \o <<EpubNcx, EpubNav>>]
    IN  [b3 EXCEPT !.spine = SpineOf(Added(b, chs))]

\* the cookies of the request add_chapters makes for a part
PartCookies(ck) == ck

\* add_chapters yielding the chapter's slug instead of its title
ChapterResumeYieldsSlug(status, body) ==
    LET part == data.parts[Len(chapters) + 1]
        o == PartOutcome(status, body)
    IN  /\ chapLog' = Append(chapLog, status)
        /\ IF o.kind = "return"
           THEN /\ chapters' = Append(chapters,
                                      Chapter(part.title, data.language.name, o.value))
                /\ events' = Append(events, slugify(part.title))
                /\ pc' = "yielded"
                /\ err' = err
           ELSE /\ pc' = "failed"
                /\ err' = [type |-> o.type, in |-> "fetch_part_content",
                           status |-> o.status]
                /\ UNCHANGED <<chapters, events>>

\* add_chapters yielding the title of a part whose fetch raised as well
ChapterResumeYieldsOnError(status, body) ==
    LET part == data.parts[Len(chapters) + 1]
        o == PartOutcome(status, body)
    IN  /\ chapLog' = Append(chapLog, status)
        /\ events' = Append(events, part.title)
        /\ IF o.kind = "return"
           THEN /\ chapters' = Append(chapters,
                                      Chapter(part.title, data.language.name, o.value))
                /\ pc' = "yielded"
                /\ err' = err
           ELSE /\ pc' = "failed"
                /\ err' = [type |-> o.type, in |-> "fetch_part_content",
                           status |-> o.status]
                /\ UNCHANGED chapters

\* add_chapters from the moment fetch_part_content's session.get has its
\* response, up to the yield
ChapterResume(status, body) ==
    LET part == data.parts[Len(chapters) + 1]
        o == PartOutcome(status, body)
    IN  /\ chapLog' = Append(chapLog, status)
        /\ IF o.kind = "return"
           THEN /\ chapters' = Append(chapters,
                                      Chapter(part.title, data.language.name, o.value))
                /\ events' = Append(events, part.title)
                /\ pc' = "yielded"
                /\ err' = err
           ELSE /\ pc' = "failed"
                /\ err' = [type |-> o.type, in |-> "fetch_part_content",
                           status |-> o.status]
                /\ UNCHANGED <<chapters, events>>

\* an add_chapters that sends the requests of all the parts left at once
ChapterLoopPrefetch ==
    IF Len(chapters) >= Len(data.parts)
    THEN /\ book' = Attach(book, chapters)
         /\ chapters' = Added(book, chapters)
         /\ pc' = "done"
         /\ UNCHANGED <<cache, reqs, chapLog, events, err>>
    ELSE /\ reqs' = reqs \o [i \in 1..(Len(data.parts) - Len(chapters)) |->
                                Request(PartUrl(data.parts[Len(chapters) + i].id),
                                        PartCookies(cookies), cache, now)]
         /\ pc' = "chap_wait"
         /\ UNCHANGED <<cache, book, chapters, chapLog, events, err>>

\* add_chapters at the head of its for loop
ChapterLoop ==
    IF Len(chapters) >= Len(data.parts)
    THEN /\ book' = Attach(book, chapters)
         /\ chapters' = Added(book, chapters)
         /\ pc' = "done"
         /\ UNCHANGED <<cache, reqs, chapLog, events, err>>
    ELSE LET url == PartUrl(data.parts[Len(chapters) + 1].id)
             c == CacheLookup(cache, url, now)
         IN  /\ reqs' = Append(reqs, Request(url, PartCookies(cookies), cache, now))
             /\ cache' = c
             /\ book' = book
             /\ IF CacheHit(cache, url, now)
                THEN ChapterResume(200, c[url].body)
                ELSE pc' = "chap_wait" /\ UNCHANGED <<chapters, chapLog, events, err>>

\* the caller starts iterating add_chapters(book, data, cookies=cookies)
AddChapters ==
    /\ pc = "fetched"
    /\ stage <= 2
    /\ stage' = 3
    /\ IF "parts" \notin DOMAIN data
       THEN /\ Raise("KeyError", "add_chapters")
            /\ UNCHANGED <<book, cache, reqs, chapters, chapLog, events>>
       ELSE ChapterLoop
    /\ UNCHANGED <<serverParts, now, run, story_id, cookies, retry, rsLog, delays,
                   data, prev>>
    /\ UNCHANGED <<coverLog, logins, auth, slug>>

\* the network answers the request for a part
ChapterResponse ==
    /\ pc = "chap_wait"
    /\ \E r \in Responses({Html(data.parts[Len(chapters) + 1].id)}) :
          /\ cache' = CacheSave(cache, PartUrl(data.parts[Len(chapters) + 1].id),
                                r.status, r.body, now)
          /\ ChapterResume(r.status, r.body)
    /\ UNCHANGED <<serverParts, now, run, story_id, cookies, retry, rsLog, delays,
                   data, stage, book, reqs, prev>>
    /\ UNCHANGED <<coverLog, logins, auth, slug>>

\* the consumer takes the next progress event: the generator resumes after
\* its yield
Resume ==
    /\ pc = "yielded"
    /\ ChapterLoop
    /\ UNCHANGED <<serverParts, now, run, story_id, cookies, retry, rsLog, delays,
                   data, stage, prev>>
    /\ UNCHANGED <<coverLog, logins, auth, slug>>

\* an add_chapters that attaches what it has when it is closed
CloseAttaches ==
    /\ pc = "yielded"
    /\ pc' = "closed"
    /\ book' = Attach(book, chapters)
    /\ chapters' = Added(book, chapters)
    /\ UNCHANGED <<serverParts, now, cache, run, story_id, cookies, retry, rsLog,
                   delays, data, err, stage, chapLog, events, reqs, prev>>
    /\ UNCHANGED <<coverLog, logins, auth, slug>>

\* the consumer stops iterating: the generator is closed at its yield
Close ==
    /\ pc = "yielded"
    /\ pc' = "closed"
    /\ UNCHANGED <<serverParts, now, cache, run, story_id, cookies, retry, rsLog,
                   delays, data, err, stage, book, chapters, chapLog, events,
                   reqs, prev>>
    /\ UNCHANGED <<coverLog, logins, auth, slug>>

----------------------------------------------------------------------------
(* wp_get_cookies *)

Usernames == {<<"A", "b">>, <<"a", "b">>, <<"b">>}
Passwords == {"pw1", "pw2"}

\* username.lower()
LowerAll(s) == [i \in 1..Len(s) |-> Lower(s[i])]

LoginUrl(username, password) == <<"auth/login", username, password>>

\* CachedSession(headers=headers): no cache is passed, so the session gets a
\* backend of its own, empty when the session is made
LoginBackend == [u \in {} |-> 0]

\* what the login endpoint may answer
LoginStatuses == {204, 200, 401}
LoginResponses == [status : LoginStatuses, cookies : {{}, UserCookies}]

\* wp_get_cookies without its test for an empty cookie mapping
LoginOutcomeAnyCookies(status, ck) ==
    IF status # 204
    THEN [kind |-> "raise", type |-> "ValueError", message |-> "Not a 204."]
    ELSE [kind |-> "return", value |-> ck]

\* what wp_get_cookies does with a response and its cookies
LoginOutcome(status, ck) ==
    IF status # 204
    THEN [kind |-> "raise", type |-> "ValueError", message |-> "Not a 204."]
    ELSE IF ck = {}
         THEN [kind |-> "raise", type |-> "ValueError", message |-> "No cookies."]
         ELSE [kind |-> "return", value |-> ck]

\* wp_get_cookies from the moment session.post has its response
LoginResume(status, ck) ==
    LET o == LoginOutcome(status, ck)
    IN  /\ logins' = [logins EXCEPT ![Len(logins)].status = status,
                                    ![Len(logins)].cookies = ck]
        /\ IF o.kind = "return"
           THEN pc' = "logged_in" /\ auth' = o.value /\ err' = err
           ELSE /\ pc' = "failed"
                /\ auth' = auth
                /\ err' = [type |-> o.type, in |-> "wp_get_cookies",
                           message |-> o.message]

\* the caller logs in: wp_get_cookies(username, password)
Login(username, password) ==
    /\ pc = "idle"
    /\ run < MaxRuns
    /\ run' = run + 1
    /\ LET url == LoginUrl(LowerAll(username), password)
       IN  /\ reqs' = Append(reqs, Request(url, {}, LoginBackend, now))
           /\ logins' = Append(logins, [given |-> username, password |-> password,
                                        status |-> 0, cookies |-> {}])
           /\ pc' = "login_wait"
    /\ UNCHANGED <<serverParts, now, cache, story_id, cookies, retry, rsLog, delays,
                   data, err, stage, book, chapters, chapLog, events, prev,
                   coverLog, auth, slug>>

\* the network answers the login request; the response goes to the session's
\* own backend, which ends with the session
LoginResponse(r) ==
    /\ pc = "login_wait"
    /\ LoginResume(r.status, r.cookies)
    /\ UNCHANGED <<serverParts, now, cache, run, story_id, cookies, retry, rsLog,
                   delays, data, stage, book, chapters, chapLog, events, reqs,
                   prev, coverLog, slug>>

\* the caller is done with the login and may log in again
LoginAgain ==
    /\ pc \in {"logged_in", "failed"}
    /\ logins # <<>>
    /\ pc' = "idle"
    /\ err' = NoError
    /\ auth' = NoData
    /\ UNCHANGED <<serverParts, now, cache, run, story_id, cookies, retry, rsLog,
                   delays, data, stage, book, chapters, chapLog, events, reqs,
                   prev, coverLog, logins, slug>>

----------------------------------------------------------------------------
(* The caller between runs *)

\* epub.EpubBook()
NewBook == [authors |-> <<>>, metadata |-> <<>>, items |-> <<>>,
            toc |-> <<>>, spine |-> <<>>]

Terminal == pc \in {"fetched", "done", "closed", "failed"}

\* the caller is done with this run; the cache and the clock live on
NewRun ==
    /\ Terminal
    /\ pc' = "idle"
    /\ prev' = [story_id |-> story_id, cookies |-> cookies, data |-> data,
                err |-> err, at |-> now, created |-> Last(rsLog).created]
    /\ retry' = TRUE
    /\ rsLog' = <<>>
    /\ delays' = 0
    /\ data' = NoData
    /\ err' = NoError
    /\ stage' = 0
    /\ book' = NewBook
    /\ chapters' = <<>>
    /\ chapLog' = <<>>
    /\ events' = <<>>
    /\ reqs' = <<>>
    /\ UNCHANGED <<serverParts, now, cache, run, story_id, cookies>>
    /\ coverLog' = <<>>
    /\ UNCHANGED <<logins, auth, slug>>

\* time passes between two runs
Tick ==
    /\ pc = "idle"
    /\ run > 0
    /\ now \div TickLen < MaxTicks
    /\ now' = now + TickLen
    /\ UNCHANGED <<serverParts, cache, run, pc, story_id, cookies, retry, rsLog,
                   delays, data, err, stage, book, chapters, chapLog, events,
                   reqs, prev>>
    /\ UNCHANGED <<coverLog, logins, auth, slug>>

----------------------------------------------------------------------------

NoSlug == [value |-> <<>>, allow_unicode |-> FALSE, out |-> <<>>]

FreshRun ==
    /\ now = 0
    /\ cache = [u \in {} |-> 0]
    /\ run = 0
    /\ pc = "idle"
    /\ story_id = 1
    /\ cookies = DefaultCookies
    /\ retry = TRUE
    /\ rsLog = <<>>
    /\ delays = 0
    /\ data = NoData
    /\ err = NoError
    /\ stage = 0
    /\ book = NewBook
    /\ chapters = <<>>
    /\ chapLog = <<>>
    /\ events = <<>>
    /\ reqs = <<>>
    /\ prev = NoData
    /\ coverLog = <<>>
    /\ logins = <<>>
    /\ auth = NoData

Fresh == FreshRun /\ slug = NoSlug

(* One run of the pipeline, for every parts list of at most MaxParts parts:  *)
(* the metadata fetch, then the assembly steps the caller chooses to make,   *)
(* in their order.                                                           *)

Init == serverParts \in SeqsUpTo(PartRefs, MaxParts) /\ Fresh

Next ==
    \/ \E sid \in StoryIds, ck \in CookieChoices : RetrieveStory(sid, ck)
    \/ \E r \in Responses({StoryRecord(story_id, v) : v \in Versions} \cup {BadJson}) :
          StoryResponse(r)
    \/ StoryRetry
    \/ SetMetadata
    \/ SetCover
    \/ \E r \in Responses({Jpeg}) : CoverResponse(r)
    \/ AddChapters
    \/ ChapterResponse
    \/ Resume
    \/ Close

Spec == Init /\ [][Next]_vars

(* Up to MaxRuns metadata fetches, one after the other, sharing the cache,   *)
(* with time passing between them.                                           *)

InitRepeat == serverParts = <<[id |-> 1, title |-> <<"A">>]>> /\ Fresh

NextRepeat ==
    \/ \E sid \in StoryIds, ck \in CookieChoices : RetrieveStory(sid, ck)
    \/ \E r \in Responses({StoryRecord(story_id, v) : v \in Versions} \cup {BadJson}) :
          StoryResponse(r)
    \/ StoryRetry
    \/ NewRun
    \/ Tick

RepeatSpec == InitRepeat /\ [][NextRepeat]_vars

(* Up to MaxRuns logins, one after the other.                                *)

InitLogin == serverParts = <<>> /\ Fresh

NextLogin ==
    \/ \E u \in Usernames, p \in Passwords : Login(u, p)
    \/ \E r \in LoginResponses : LoginResponse(r)
    \/ LoginAgain

LoginSpec == InitLogin /\ [][NextLogin]_vars

(* slugify applied to every string of at most MaxLen characters, with       *)
(* either value of allow_unicode, and then to its own result.               *)

\* out = slugify(value, allow_unicode)
Slugify ==
    /\ slug.out = <<>>
    /\ slug' = [slug EXCEPT !.out = <<slugifyWith(slug.value, slug.allow_unicode)>>]
    /\ UNCHANGED <<serverParts, now, cache, run, pc, story_id, cookies, retry, rsLog,
                   delays, data, err, stage, book, chapters, chapLog, events, reqs,
                   prev, coverLog, logins, auth>>

\* slugify(out, allow_unicode), the function applied to its own result
SlugifyResult ==
    /\ Len(slug.out) \in {1, 2}
    /\ slug' = [slug EXCEPT
                    !.out = Append(@, slugifyWith(Last(slug.out), slug.allow_unicode))]
    /\ UNCHANGED <<serverParts, now, cache, run, pc, story_id, cookies, retry, rsLog,
                   delays, data, err, stage, book, chapters, chapLog, events, reqs,
                   prev, coverLog, logins, auth>>

InitSlug ==
    /\ serverParts = <<>>
    /\ FreshRun
    /\ slug \in [value : SeqsUpTo(Chars, MaxLen), allow_unicode : BOOLEAN, out : {<<>>}]

NextSlug == Slugify \/ SlugifyResult

SlugSpec == InitSlug /\ [][NextSlug]_vars

----------------------------------------------------------------------------
(* Properties *)

IsStory(d) == "parts" \in DOMAIN d

\* the parts of the fetched record (none while there is no record)
Parts == IF IsStory(data) THEN data.parts ELSE <<>>

TitlesOf(ps) == [i \in 1..Len(ps) |-> ps[i].title]

StoryRequests == SelectSeq(reqs, LAMBDA r : r.url[1] = "api/v3/stories")
CoverRequests == SelectSeq(reqs, LAMBDA r : r.url[1] = "img/cover")
PartRequests == SelectSeq(reqs, LAMBDA r : r.url[1] = "apiv2/?m=storytext")

\* the response made retrieve_story raise ValueError
Failed(r) == r.status \in ErrorCodes \/ (r.status \in OkCodes /\ r.body = BadJson)

RaisedBy(where) == err # NoError /\ err.in = where

\* C1: in retrieve_story a response with a non-success status other than
\* 404/400 is followed by exactly one 15-second sleep and one retried request;
\* the retried call never retries, so a metadata fetch makes at most 2
\* requests and sleeps at most once; a retried request that fails too ends
\* the fetch with TimeoutError, one that succeeds makes the fetch return the
\* record of the second response.
C1_SingleRetry ==
    /\ Len(StoryRequests) <= 2
    /\ Len(rsLog) <= Len(StoryRequests)
    /\ delays <= 1
    /\ now = delays * SleepDelay
    /\ delays = 1 => Len(rsLog) >= 1 /\ Failed(rsLog[1])
    /\ (Len(rsLog) >= 1 /\ rsLog[1].status \in ErrorCodes) =>
          IF pc = "story_sleep"
          THEN delays = 0 /\ Len(StoryRequests) = 1
          ELSE delays = 1 /\ Len(StoryRequests) = 2
    /\ (Len(rsLog) = 2 /\ rsLog[2].status \in ErrorCodes) =>
          /\ pc = "failed"
          /\ err = [type |-> "TimeoutError", in |-> "retrieve_story"]
          /\ data = NoData
    /\ (Len(rsLog) = 2 /\ ~Failed(rsLog[2]) /\ rsLog[2].status \in OkCodes) =>
          /\ data = rsLog[2].body
          /\ ~RaisedBy("retrieve_story")

C1_Witness ==
    /\ Len(rsLog) = 2
    /\ rsLog[1].status \in ErrorCodes
    /\ rsLog[2].status \in OkCodes
    /\ rsLog[2].network
    /\ data = rsLog[2].body
    /\ delays = 1

\* C2: a 404 or 400 response to the metadata request, first or retried, makes
\* retrieve_story return the empty record: it does not raise, does not sleep
\* after that response and makes no further request.
C2_NotFoundReturnsEmpty ==
    \A i \in 1..Len(rsLog) :
        rsLog[i].status \in NotFoundCodes =>
            /\ i = Len(rsLog)
            /\ Len(StoryRequests) = i
            /\ delays = i - 1
            /\ data = EmptyRecord
            /\ pc \notin {"story_wait", "story_sleep"}
            /\ ~RaisedBy("retrieve_story")

C2_Witness ==
    /\ Len(rsLog) = 2
    /\ rsLog[2].status \in NotFoundCodes
    /\ data = EmptyRecord
    /\ pc = "fetched"

\* C3: every request of a run made with credentials carries the credentials
\* the caller supplied; none is sent with the empty default credentials.
C3_CredentialsOnEveryRequest ==
    cookies # DefaultCookies =>
        \A i \in 1..Len(reqs) : reqs[i].cookies = cookies

\* C4: a run of add_chapters that completes has yielded exactly one progress
\* event per part, the k-th being the title of the k-th part; until then the
\* events are a prefix of the titles.
C4_OneEventPerPart ==
    /\ IsPrefix(events, TitlesOf(Parts))
    /\ pc = "done" => events = TitlesOf(Parts)

C4_Witness ==
    /\ pc = "done"
    /\ Len(events) = 2
    /\ events[1] # events[2]
    /\ slugify(events[1]) = slugify(events[2])

NcxRef == [idref |-> <<"ncx">>]

\* the chapter entry is that of part p: its title, its heading, then the
\* content served for p or nothing
IsChapterOf(ch, p) ==
    /\ ch.kind = "chapter"
    /\ ch.title = p.title
    /\ ch.content \in {<<"<h1>">> \o p.title \o <<"</h1>">> \o Html(p.id),
                       <<"<h1>">> \o p.title \o <<"</h1>">>}

\* C5 as stated: after a successful run the spine is the navigation entry,
\* the contents-index entry, then the N chapters in the order of the parts.
C5_SpineTwoStructural ==
    pc = "done" =>
        /\ Len(book.spine) = Len(Parts) + 2
        /\ book.spine[1] = NavRef
        /\ book.spine[2] = NcxRef
        /\ \A k \in 1..Len(Parts) : IsChapterOf(book.spine[k + 2], Parts[k])

\* C5 amended: after a successful run the spine is the navigation entry alone,
\* then the N chapters in the order of the parts; the contents index is an
\* item of the book and no entry of the spine.
C5_SpineNavThenChapters ==
    pc = "done" =>
        /\ Len(book.spine) = Len(Parts) + 1
        /\ book.spine[1] = NavRef
        /\ \A k \in 1..Len(Parts) : IsChapterOf(book.spine[k + 1], Parts[k])
        /\ \A k \in 1..Len(book.spine) : book.spine[k] # NcxRef
        /\ \E i \in 1..Len(book.items) : book.items[i] = EpubNcx
        /\ \E i \in 1..Len(book.items) : book.items[i] = EpubNav

C5_Witness ==
    /\ pc = "done"
    /\ Len(Parts) = 2
    /\ Len(book.spine) = 3
    /\ Parts[1] # Parts[2]

ChapterItems(b) == SelectSeq(b.items, LAMBDA it : it.kind = "chapter")

\* chs is a copy of the first Len(chs) parts, in order
CopiesPrefix(chs, ps) ==
    /\ Len(chs) <= Len(ps)
    /\ \A k \in 1..Len(chs) : IsChapterOf(chs[k], ps[k])

\* C6: in every state the chapter items of the book, its table of contents
\* and the list add_chapters is building copy a prefix of the parts in their
\* order, repeated parts included; after a successful run each has N entries.
C6_ChaptersFollowParts ==
    /\ CopiesPrefix(ChapterItems(book), Parts)
    /\ CopiesPrefix(book.toc, Parts)
    /\ CopiesPrefix(chapters, Parts)
    /\ pc = "done" =>
          /\ Len(ChapterItems(book)) = Len(Parts)
          /\ Len(book.toc) = Len(Parts)

C6_Witness ==
    /\ pc = "done"
    /\ Len(Parts) = 2
    /\ Parts[1] = Parts[2]
    /\ Len(ChapterItems(book)) = 2
    /\ Len(book.toc) = 2

Heading(title) == <<"<h1>">> \o title \o <<"</h1>">>

\* the consumer resumes add_chapters after the event of a part that is not
\* the last one
ResumedBeforeLast ==
    /\ pc = "yielded"
    /\ pc' # "closed"
    /\ Len(chapters) < Len(Parts)

\* C7: a part whose request returns 404 or 400 still gets its chapter entry,
\* the body being the title heading followed by nothing, and its progress
\* event; the run does not fail there, and when the consumer resumes the next
\* part is requested.
C7_NotFoundChapterIsEmpty ==
    /\ [](\A k \in 1..Len(chapLog) :
            chapLog[k] \in NotFoundCodes =>
                /\ Len(chapters) >= k
                /\ chapters[k].title = Parts[k].title
                /\ chapters[k].content = Heading(Parts[k].title)
                /\ Len(events) >= k
                /\ events[k] = Parts[k].title
                /\ Len(chapLog) = k => pc # "failed")
    /\ [][(ResumedBeforeLast /\ Last(chapLog) \in NotFoundCodes) =>
            /\ Len(PartRequests') = Len(chapters) + 1
            /\ Last(PartRequests').url = PartUrl(Parts[Len(chapters) + 1].id)]_vars

C7_Witness ==
    /\ Len(chapLog) = 2
    /\ chapLog[1] \in NotFoundCodes
    /\ chapters[1].content = Heading(Parts[1].title)
    /\ Len(events) = 2
    /\ reqs[Len(reqs)].network

\* C8: when the request for part k returns a non-success status other than
\* 404/400 the run fails there with the ValueError carrying the status (the
\* request error), after one request for that part: the part requests made
\* are those of parts 1..k, one each, and the events yielded are the titles of
\* parts 1..k-1.
C8_ChapterErrorAborts ==
    \A k \in 1..Len(chapLog) :
        chapLog[k] \in ErrorCodes =>
            /\ k = Len(chapLog)
            /\ pc = "failed"
            /\ err = [type |-> "ValueError", in |-> "fetch_part_content",
                      status |-> chapLog[k]]
            /\ Len(PartRequests) = k
            /\ \A i \in 1..k : PartRequests[i].url = PartUrl(Parts[i].id)
            /\ events = TitlesOf(SubSeq(Parts, 1, k - 1))
            /\ Len(chapters) = k - 1

C8_Witness ==
    /\ Len(Parts) = 2
    /\ Len(chapLog) = 1
    /\ chapLog[1] \in ErrorCodes
    /\ pc = "failed"
    /\ Len(PartRequests) = 1

C8_WitnessLater ==
    /\ Len(chapLog) = 2
    /\ chapLog[2] \in ErrorCodes
    /\ Len(events) = 1

\* C9: with the empty record, the assembly step the caller makes
\* (set_metadata, set_cover or add_chapters) fails with KeyError before any
\* request: the run has no cover request and no part request, and the book is
\* untouched.
C9_EmptyRecordStopsAssembly ==
    data = EmptyRecord =>
        /\ Len(CoverRequests) = 0
        /\ Len(PartRequests) = 0
        /\ book = NewBook
        /\ events = <<>>
        /\ pc \in {"fetched", "failed"}
        /\ stage = 0 => pc = "fetched"
        /\ stage = 1 => RaisedBy("set_metadata") /\ err.type = "KeyError"
        /\ stage = 2 => RaisedBy("set_cover") /\ err.type = "KeyError"
        /\ stage = 3 => RaisedBy("add_chapters") /\ err.type = "KeyError"

C9_Witness ==
    /\ data = EmptyRecord
    /\ stage = 2
    /\ pc = "failed"
    /\ RaisedBy("set_cover")

C9_WitnessChapters == data = EmptyRecord /\ RaisedBy("add_chapters")

C9_WitnessMetadata == data = EmptyRecord /\ RaisedBy("set_metadata")

\* this run repeats the previous run's retrieve_story call
Repeats ==
    /\ prev # NoData
    /\ reqs # <<>>
    /\ prev.story_id = story_id
    /\ prev.cookies = cookies

NetworkStoryRequests == SelectSeq(StoryRequests, LAMBDA r : r.network)

C10_WitnessNotFound ==
    /\ Repeats
    /\ prev.data = EmptyRecord
    /\ reqs[1].network
    /\ IsStory(data)

LoginRequests == SelectSeq(reqs, LAMBDA r : r.url[1] = "auth/login")

\* C11: a wp_get_cookies call makes one login request and no other; a status
\* other than 204 ends it with the ValueError "Not a 204.", a 204 without
\* cookies with the ValueError "No cookies." (the authentication errors), and
\* a 204 with cookies makes it return them, a non-empty mapping.
C11_LoginOnceOrFail ==
    /\ Len(LoginRequests) = Len(logins)
    /\ Len(reqs) = Len(LoginRequests)
    /\ Len(logins) = run
    /\ \A i \in 1..Len(logins) :
          /\ reqs[i].url = LoginUrl(LowerAll(logins[i].given), logins[i].password)
          /\ logins[i].status = 0 => i = Len(logins) /\ pc = "login_wait"
    /\ (logins # <<>> /\ pc # "idle") =>
          LET l == Last(logins)
          IN  /\ (l.status # 0 /\ l.status # 204) =>
                    /\ pc = "failed"
                    /\ auth = NoData
                    /\ err = [type |-> "ValueError", in |-> "wp_get_cookies",
                              message |-> "Not a 204."]
              /\ (l.status = 204 /\ l.cookies = {}) =>
                    /\ pc = "failed"
                    /\ auth = NoData
                    /\ err = [type |-> "ValueError", in |-> "wp_get_cookies",
                              message |-> "No cookies."]
              /\ (l.status = 204 /\ l.cookies # {}) =>
                    /\ pc = "logged_in"
                    /\ auth = l.cookies
                    /\ auth # {}
                    /\ err = NoError

C11_Witness ==
    /\ Len(logins) = 2
    /\ logins[1].status = 204
    /\ logins[1].cookies = {}
    /\ logins[2].status = 204
    /\ pc = "logged_in"
    /\ auth = UserCookies

C11_WitnessNot204 == pc = "failed" /\ Last(logins).status = 401 /\ Len(reqs) = 1

\* the exception as the caller gets it: its type and its arguments
Signal(e) ==
    [type |-> e.type,
     args |-> IF "status" \in DOMAIN e THEN <<"Status Code:", ToString(e.status)>>
              ELSE IF "message" \in DOMAIN e THEN <<e.message>>
              ELSE <<>>]

RaisedOutcomes(outcomes) == {o \in outcomes : o.kind = "raise"}

\* the failures of each stage, with the signal each one gives
StageFailures ==
    {[stage |-> <<"authentication">>, signal |-> Signal(o)] :
        o \in RaisedOutcomes({LoginOutcome(r.status, r.cookies) : r \in LoginResponses})}
    \cup {[stage |-> <<"metadata">>, signal |-> Signal(o)] :
        o \in RaisedOutcomes({StoryOutcome(st, NoBody, FALSE) : st \in Statuses})}
    \cup {[stage |-> <<"cover">>, signal |-> Signal(o)] :
        o \in RaisedOutcomes({CoverOutcome(st, NoBody) : st \in Statuses})}
    \cup UNION {{[stage |-> <<"chapter", ToString(k)>>, signal |-> Signal(o)] :
                    o \in RaisedOutcomes({PartOutcome(st, NoBody) : st \in Statuses})} :
                k \in 1..MaxParts}

\* the stage the failed run failed in
FailedStage ==
    CASE err.in = "wp_get_cookies" -> <<"authentication">>
      [] err.in = "retrieve_story" -> <<"metadata">>
      [] err.in = "fetch_cover" -> <<"cover">>
      [] err.in = "fetch_part_content" -> <<"chapter", ToString(Len(chapLog))>>
      [] OTHER -> <<err.in>>

\* C12: the error a failed run ends with tells the stage that failed: no
\* failure of another stage (authentication, metadata, cover, another
\* chapter) gives the same error.
C12_ErrorTellsStage ==
    pc = "failed" =>
        \A f \in StageFailures : f.signal = Signal(err) => f.stage = FailedStage

\* C18: of two logins whose usernames differ only in letter case, both send
\* the same lower-cased username and the second, the first having been
\* answered, makes no network request.
C18_SecondLoginIsCached ==
    \A i, j \in 1..Len(logins) :
        (/\ i < j
         /\ logins[i].given # logins[j].given
         /\ LowerAll(logins[i].given) = LowerAll(logins[j].given)
         /\ logins[i].password = logins[j].password
         /\ logins[i].status = 204
         /\ logins[i].cookies # {}) =>
            /\ reqs[i].url[2] = reqs[j].url[2]
            /\ ~reqs[j].network

LowerAlnum == {"a", "b", "e", "1", "e_acute"}

SlugChars(allowed) ==
    \A k \in 1..Len(slug.out) : \A i \in 1..Len(slug.out[k]) : slug.out[k][i] \in allowed

SlugEnds ==
    \A k \in 1..Len(slug.out) :
        slug.out[k] # <<>> =>
            /\ slug.out[k][1] \notin {"-", "_"}
            /\ Last(slug.out[k]) \notin {"-", "_"}

\* C13 as stated: the result of slugify holds only lower-case alphanumeric
\* characters and hyphens, so no underscore and no whitespace, and neither
\* starts nor ends with a hyphen or an underscore.
C13_SlugNoUnderscore == SlugChars(LowerAlnum \cup {"-"}) /\ SlugEnds

\* C13: the result of slugify holds only lower-case alphanumeric characters,
\* hyphens and underscores, no whitespace, and neither starts nor ends with a
\* hyphen or an underscore; an underscore inside the result is kept.
C13_SlugAlphabet == SlugChars(LowerAlnum \cup {"-", "_"}) /\ SlugEnds

C13_Witness ==
    /\ slug.value = <<"_", "A", " ">>
    /\ slug.out = <<<<"a">>>>

C13_WitnessUnderscore ==
    /\ slug.value = <<"a", "_", "B">>
    /\ slug.out # <<>>
    /\ slug.out[1] = <<"a", "_", "b">>

\* C14: slugify applied to its own result gives that result again:
\* slugify(slugify(x)) = slugify(x), and so does every further application.
C14_Idempotent ==
    \A k \in 2..Len(slug.out) : slug.out[k] = slug.out[1]

C14_Witness ==
    /\ Len(slug.out) = 3
    /\ slug.value = <<" ", "A", "!">>
    /\ slug.out[2] = <<"a">>

\* the requests sent and not yet answered
Outstanding ==
    (Len(StoryRequests) - Len(rsLog)) + (Len(CoverRequests) - Len(coverLog))
        + (Len(PartRequests) - Len(chapLog))

\* this step sends the request of one more part
PartRequested == Len(SelectSeq(reqs', LAMBDA r : r.url[1] = "apiv2/?m=storytext"))
                    > Len(PartRequests)

\* C15: at most one request of a run is outstanding at any time; the part
\* requests follow the order of the parts, one per part; the request of part
\* k+1 is sent only when the request of part k is answered and the consumer
\* resumes the sequence after the event of part k.
C15_OneRequestAtATime ==
    /\ [](/\ Outstanding \in {0, 1}
          /\ Len(PartRequests) <= Len(Parts)
          /\ Len(PartRequests) <= Len(events) + 1
          /\ \A k \in 1..Len(PartRequests) :
                PartRequests[k].url = PartUrl(Parts[k].id))
    /\ [][PartRequested =>
            /\ Outstanding = 0
            /\ Len(reqs') = Len(reqs) + 1
            /\ Len(chapLog) = Len(PartRequests)
            /\ Len(events) = Len(PartRequests)
            /\ pc = IF PartRequests = <<>> THEN "fetched" ELSE "yielded"]_vars

C15_Witness ==
    /\ pc = "chap_wait"
    /\ Len(PartRequests) = 2
    /\ Len(chapLog) = 1
    /\ Len(events) = 1
    /\ Outstanding = 1

\* C16: the event of part k is emitted when the fetch of part k has returned
\* without raising, one event per returned fetch and in the same step, and
\* the book gets its chapter items only after the last event.
C16_EventAfterFetchBeforeAppend ==
    /\ [](/\ Len(events) <= Len(chapLog)
          /\ \A k \in 1..Len(events) : chapLog[k] \notin ErrorCodes
          /\ ChapterItems(book) # <<>> => Len(events) = Len(Parts))
    /\ [][/\ events' # events =>
                /\ events' = Append(events, Parts[Len(events) + 1].title)
                /\ Len(chapLog') = Len(events')
                /\ Last(chapLog') \notin ErrorCodes
                /\ ChapterItems(book') = <<>>
          /\ ChapterItems(book') # ChapterItems(book) =>
                /\ events' = events
                /\ Len(events) = Len(Parts)]_vars

C16_Witness ==
    /\ pc = "yielded"
    /\ Len(events) = 2
    /\ Len(chapters) = 2
    /\ ChapterItems(book) = <<>>

C16_WitnessAppended ==
    /\ pc = "done"
    /\ Len(events) = 2
    /\ Len(ChapterItems(book)) = 2

CoverItems(b) == SelectSeq(b.items, LAMBDA it : it.kind = "cover-img")

\* C17: set_cover sends one cover request and no second one; after a 404 or
\* 400 the book has a cover image of no bytes and the run goes on; after
\* another non-success status the run has failed in fetch_cover, the book has
\* no cover and no part is ever requested.
C17_CoverPolicy ==
    /\ []( /\ Len(CoverRequests) <= 1
           /\ Len(coverLog) <= Len(CoverRequests)
           /\ (stage = 2 /\ ~RaisedBy("set_cover")) => Len(CoverRequests) = 1
           /\ \A k \in 1..Len(coverLog) :
                /\ coverLog[k] \in NotFoundCodes =>
                      /\ CoverItems(book) = <<CoverImage(<<>>)>>
                      /\ ~RaisedBy("fetch_cover")
                /\ coverLog[k] \in ErrorCodes =>
                      /\ pc = "failed"
                      /\ err = [type |-> "ValueError", in |-> "fetch_cover",
                                status |-> coverLog[k]]
                      /\ CoverItems(book) = <<>>
                      /\ PartRequests = <<>> )
    /\ [][coverLog' # coverLog =>
            /\ Last(coverLog') \in NotFoundCodes => pc' = "fetched"
            /\ Last(coverLog') \in ErrorCodes => pc' = "failed"]_vars

C17_Witness ==
    /\ coverLog = <<404>>
    /\ CoverItems(book) = <<CoverImage(<<>>)>>
    /\ pc = "chap_wait"

C17_WitnessError ==
    /\ coverLog = <<500>>
    /\ pc = "failed"
    /\ Len(CoverRequests) = 1

\* what add_chapters attaches to the book
Attached(b) ==
    [items |-> SelectSeq(b.items, LAMBDA it : it.kind \in {"chapter", "ncx", "nav"}),
     toc |-> b.toc,
     spine |-> b.spine]

NothingAttached == [items |-> <<>>, toc |-> <<>>, spine |-> <<>>]

\* C19: the chapter items, the table of contents and the spine of the book
\* change in one step only, the one in which add_chapters ends, all N parts
\* fetched and the consumer resuming after the N-th event; in every other
\* state, a failed run and a run the consumer stopped included, they are as
\* the book was made.
C19_AttachAllOrNothing ==
    /\ [](/\ pc # "done" => Attached(book) = NothingAttached
          /\ pc = "done" =>
                /\ Len(events) = Len(Parts)
                /\ Len(chapLog) = Len(Parts)
                /\ Len(Attached(book).toc) = Len(Parts))
    /\ [][Attached(book') # Attached(book) =>
            /\ pc' = "done"
            /\ Len(events) = Len(Parts)
            /\ Len(Parts) > 0 => pc = "yielded"]_vars

C19_Witness ==
    /\ pc = "closed"
    /\ Len(Parts) = 2
    /\ Len(events) = 2
    /\ Attached(book) = NothingAttached

C19_WitnessFailed ==
    /\ pc = "failed"
    /\ RaisedBy("fetch_part_content")
    /\ Len(events) = 1
    /\ Attached(book) = NothingAttached

C19_WitnessDone ==
    /\ pc = "done"
    /\ Len(Parts) = 2
    /\ Len(Attached(book).spine) = 3

\* C20: after a successful run the chapter entries of distinct parts have
\* distinct file names.
C20_DistinctFileNames ==
    pc = "done" =>
        \A i, j \in 1..Len(ChapterItems(book)) :
            Parts[i].id # Parts[j].id =>
                ChapterItems(book)[i].file_name # ChapterItems(book)[j].file_name

====
